---- MODULE Spec2Model ----
(***************************************************************************)
(* Model of the kubensage relay: the Broadcaster (registry of subscriber   *)
(* channels behind a sync.RWMutex, pkg/grpc/broadcaster.go) and the two    *)
(* streaming handlers of MetricsServer (pkg/grpc/server.go): SendMetrics,  *)
(* one goroutine per agent, and SubscribeMetrics, one goroutine per        *)
(* subscriber.  Every goroutine step that touches shared state (the lock,  *)
(* the map, a channel) is one action, so all interleavings are explored.   *)
(***************************************************************************)
EXTENDS Integers, Sequences, FiniteSets, TLC

\* ---- bounds of the model ------------------------------------------------
\* Number of concurrent SendMetrics calls (agents).
NumAgents == 2
\* Number of SubscribeMetrics calls over the run (each allocates one token
\* and one channel; a re-subscription is a further call).
NumSubs == 2
\* Total number of messages the agents' stream.Recv calls hand out over the run.
MaxMsgs == 2
\* Largest channel capacity explored.  The program makes every subscriber
\* channel with capacity 100 (server.go:90); the model runs the program for
\* each capacity in 1..MaxCap, so that both a full channel and a channel
\* holding several messages are reached within MaxMsgs messages.
MaxCap == 2

Agents == 1..NumAgents
Subs == 1..NumSubs
\* A message is the *gen.Metrics a Recv call allocated: the k-th message of
\* agent a.  Distinct Recv calls give distinct messages.
MsgId(a, k) == (a - 1) * MaxMsgs + k
Msgs == 1..(NumAgents * MaxMsgs)
NoOne == 0

VARIABLES
  \* Broadcaster
  subscribers,   \* b.subscribers: token -> channel (a channel is named by the call that made it)
  muWriter,      \* b.subscribersMu: the SubscribeMetrics call holding Lock, or NoOne
  muReaders,     \* b.subscribersMu: the SendMetrics calls holding RLock
  chans,         \* buffer of the channel made by each SubscribeMetrics call
  chanCap,       \* capacity every subscriber channel is made with
  rec,           \* whether the observation variables below are kept (see BusySpec)
  drops,         \* per channel: number of "dropping metrics" warnings logged
  \* SendMetrics goroutines
  apc,           \* position of each SendMetrics call
  req,           \* its local req
  todo,          \* map entries its range loop in Broadcast has still to visit
  err,           \* its local err: what the last stream.Recv returned
  aret,          \* its return value
  \* SubscribeMetrics goroutines
  spc,           \* position of each SubscribeMetrics call
  id,            \* its local id
  msg,           \* its local msg
  sret,          \* its return value
  ctxDone,       \* whether stream.Context().Done() is closed
  \* observation (history) variables
  recvd,         \* per agent: messages Recv returned, in order
  bcastCalls,    \* per agent: arguments of its Broadcast calls, in order
  acks,          \* per agent: number of SendAndClose calls
  returned,      \* messages whose Broadcast call has returned
  hb,            \* per message: the Broadcast calls that had returned when its own was called
  snap,          \* per message: channels registered when its Broadcast took RLock
  attempts,      \* per channel: the enqueue attempts made on it, in order
  sendCalls,     \* per subscriber: arguments of its stream.Send calls, in order
  unregCalls,    \* per subscriber: arguments of its Unregister calls, in order
  lastSend       \* per subscriber: outcome of its latest stream.Send call

bvars == <<subscribers, muWriter, muReaders, chans, chanCap, rec, drops>>
avars == <<apc, req, todo, err, aret>>
svars == <<spc, id, msg, sret, ctxDone>>
ahist == <<recvd, bcastCalls, acks, returned, hb, snap>>
shist == <<sendCalls, unregCalls, lastSend>>
vars == <<bvars, avars, svars, ahist, shist, attempts>>

\* ---- helpers ------------------------------------------------------------
Min(a, b) == IF a < b THEN a ELSE b
Max(a, b) == IF a > b THEN a ELSE b
EmptyMap == [t \in {} |-> NoOne]
IsPrefix(s, t) == Len(s) <= Len(t) /\ SubSeq(t, 1, Len(s)) = s
Range(s) == {s[k] : k \in 1..Len(s)}
\* The next value of an observation variable: new when the observations are
\* kept, and otherwise old, its value for ever.
Kept(new, old) == IF rec THEN new ELSE old

\* ---- Broadcaster --------------------------------------------------------
\* NewBroadcaster: an empty map, an unlocked mutex.
NewBroadcaster ==
  /\ subscribers = EmptyMap
  /\ muWriter = NoOne
  /\ muReaders = {}

\* The calls that have called b.subscribersMu.Lock() and wait for it.  The
\* Lock call is the first thing Register and Unregister do, and nothing
\* but local work lies between the step before and that call, so a call is
\* waiting from the moment it is about to register or to unregister.
LockWaiters == {s \in Subs : spc[s] \in {"register", "unregister"}}

\* sync.RWMutex: Lock is granted when nobody holds the mutex; RLock when no
\* writer holds it and none waits for it ("if any goroutine calls Lock
\* while the lock is already held by one or more readers, concurrent calls
\* to RLock will block until the writer has acquired (and released) the
\* lock").
CanLock == muWriter = NoOne /\ muReaders = {}
\* (mutant) the read lock does not wait for a writer
CanRLockAlways == TRUE
CanRLock == muWriter = NoOne /\ LockWaiters = {}

\* (mutant) the entry is not stored
RegisterMapLost(m, t, ch) == m

\* b.subscribers[id] = ch
RegisterMap(m, t, ch) == [x \in DOMAIN m \cup {t} |-> IF x = t THEN ch ELSE m[x]]

\* (mutant) the entry is left in the map
UnregisterMapKept(m, t) == m

\* (mutant) deleting a token that is absent empties the map
UnregisterMapAbsentClears(m, t) ==
  IF t \in DOMAIN m THEN [x \in DOMAIN m \ {t} |-> m[x]] ELSE [x \in {} |-> NoOne]

\* (mutant) the delete takes every entry with it
UnregisterMapAll(m, t) == [x \in {} |-> NoOne]

\* delete(b.subscribers, id)
UnregisterMap(m, t) == [x \in DOMAIN m \ {t} |-> m[x]]

\* (mutant) the message is put at the front of the buffer
TrySendFront(q, m) ==
  IF Len(q) < chanCap THEN [q |-> <<m>> \o q, ok |-> TRUE]
  ELSE [q |-> q, ok |-> FALSE]

\* (mutant) a full buffer gives up its oldest message for the new one
TrySendDropOldest(q, m) ==
  IF Len(q) < chanCap THEN [q |-> Append(q, m), ok |-> TRUE]
  ELSE [q |-> Append(Tail(q), m), ok |-> FALSE]

\* select { case ch <- msg: ... default: ... } on a buffered channel: the
\* send case is ready exactly when the buffer has room.
TrySend(q, m) ==
  IF Len(q) < chanCap THEN [q |-> Append(q, m), ok |-> TRUE]
  ELSE [q |-> q, ok |-> FALSE]

\* (mutant) no default case: the send waits for room in the buffer
SelectReadyNoDefault(q) == Len(q) < chanCap

\* The select in Broadcast has a default case, so it never waits: it is
\* ready whatever the state of the channel.
SelectReady(q) == TRUE

\* (mutant) an entry whose channel was full is visited again
RangeRestRetry(rest, t, ok) == IF ok THEN rest \ {t} ELSE rest

\* (mutant) the loop is left at the first drop
RangeRestStopOnDrop(rest, t, ok) == IF ok THEN rest \ {t} ELSE {}

\* The range loop of Broadcast goes on to the remaining entries whatever the
\* outcome of the select was.
RangeRest(rest, t, ok) == rest \ {t}

\* ---- SendMetrics --------------------------------------------------------
\* (mutant) the loop goes back to Recv without broadcasting
AfterRecvSkip == "recv"

\* The statement that follows a successful Recv: s.broadcaster.Broadcast(req),
\* which starts by taking RLock.
AfterRecv == "rlock"

\* Number of messages received so far, over all agents.
RECURSIVE SumLen(_, _)
SumLen(f, S) == IF S = {} THEN 0
                ELSE LET x == CHOOSE y \in S : TRUE IN Len(f[x]) + SumLen(f, S \ {x})
NumRecvd == SumLen(recvd, Agents)

\* The SendMetrics calls are numbered in the order of their first Recv
\* return: call a is served once every earlier call has been.
Served(a) == recvd[a] # <<>> \/ apc[a] # "recv"
InTurn(a) == rec => \A b \in Agents : b < a => Served(b)

\* stream.Recv() returns a message.
RecvMsg(a) ==
  /\ apc[a] = "recv"
  /\ InTurn(a)
  /\ rec => NumRecvd < MaxMsgs
  /\ LET m == MsgId(a, Len(recvd[a]) + 1)
     IN /\ req' = [req EXCEPT ![a] = m]
        /\ err' = [err EXCEPT ![a] = "nil"]
        /\ recvd' = Kept([recvd EXCEPT ![a] = Append(@, m)], recvd)
        /\ apc' = [apc EXCEPT ![a] = AfterRecv]
        /\ IF AfterRecv = "rlock"
             THEN /\ bcastCalls' = Kept([bcastCalls EXCEPT ![a] = Append(@, m)], bcastCalls)
                  /\ hb' = Kept([hb EXCEPT ![m] = returned], hb)
             ELSE UNCHANGED <<bcastCalls, hb>>
  /\ UNCHANGED <<bvars, todo, aret, svars, acks, returned, snap, shist, attempts>>

\* The errors stream.Recv returns: io.EOF when the agent has closed the
\* stream, a transport error otherwise.
RecvErrors == {"EOF", "transport"}

\* (mutant) every error of Recv is taken for the end of the stream
IsEOFAlways(e) == TRUE

\* (mutant) the end of the stream is never recognised
IsEOFNever(e) == FALSE

\* err == io.EOF
IsEOF(e) == e = "EOF"

\* stream.Recv() returns io.EOF: return stream.SendAndClose(&emptypb.Empty{}),
\* which returns nil when the acknowledgment was sent and the error of the
\* send otherwise.
RecvEOF(a) ==
  /\ apc[a] = "recv"
  /\ InTurn(a)
  /\ \E e \in RecvErrors : IsEOF(e) /\ err' = [err EXCEPT ![a] = e]
  /\ acks' = [acks EXCEPT ![a] = @ + 1]
  /\ \E r \in {"nil", "ackfailed"} : aret' = [aret EXCEPT ![a] = r]
  /\ apc' = [apc EXCEPT ![a] = "closed"]
  /\ UNCHANGED <<bvars, req, todo, svars, recvd, bcastCalls, returned, hb,
                 snap, shist, attempts>>

\* stream.Recv() returns another error: return err.
RecvErr(a) ==
  /\ apc[a] = "recv"
  /\ InTurn(a)
  /\ \E e \in RecvErrors : /\ ~IsEOF(e)
                            /\ err' = [err EXCEPT ![a] = e]
                            /\ aret' = [aret EXCEPT ![a] = e]
  /\ apc' = [apc EXCEPT ![a] = "failed"]
  /\ UNCHANGED <<bvars, req, todo, svars, ahist, shist, attempts>>

\* Broadcast: b.subscribersMu.RLock(); the range loop starts over the map as
\* it is now (no writer can change it while the read lock is held).
BroadcastRLock(a) ==
  /\ apc[a] = "rlock"
  /\ CanRLock
  /\ muReaders' = muReaders \cup {a}
  /\ todo' = [todo EXCEPT ![a] = DOMAIN subscribers]
  /\ snap' = Kept([snap EXCEPT ![req[a]] = {subscribers[t] : t \in DOMAIN subscribers}], snap)
  /\ apc' = [apc EXCEPT ![a] = "range"]
  /\ UNCHANGED <<subscribers, muWriter, chans, chanCap, rec, drops, req, err, aret, svars,
                 recvd, bcastCalls, acks, returned, hb, shist, attempts>>

\* Broadcast: one iteration of the range loop, over any entry not yet
\* visited (Go's map iteration order is unspecified).
BroadcastStep(a) ==
  /\ apc[a] = "range"
  /\ \E t \in todo[a] :
       LET ch == subscribers[t]
           r == TrySend(chans[ch], req[a])
       IN /\ SelectReady(chans[ch])
          /\ chans' = [chans EXCEPT ![ch] = r.q]
          /\ drops' = Kept([drops EXCEPT ![ch] = IF r.ok THEN @ ELSE @ + 1], drops)
          /\ attempts' = Kept([attempts EXCEPT ![ch] =
                Append(@, [m |-> req[a], room |-> Len(chans[ch]) < chanCap,
                           enq |-> r.q # chans[ch]])], attempts)
          /\ todo' = [todo EXCEPT ![a] = RangeRest(@, t, r.ok)]
  /\ UNCHANGED <<subscribers, muWriter, muReaders, chanCap, rec, apc, req, err, aret, svars,
                 ahist, shist>>

\* Broadcast: the range loop is over; the deferred RUnlock runs and
\* Broadcast returns to the receive loop.
BroadcastRUnlock(a) ==
  /\ apc[a] = "range"
  /\ todo[a] = {}
  /\ muReaders' = muReaders \ {a}
  /\ returned' = Kept(returned \cup {req[a]}, returned)
  /\ req' = [req EXCEPT ![a] = NoOne]
  /\ apc' = [apc EXCEPT ![a] = "recv"]
  /\ UNCHANGED <<subscribers, muWriter, chans, chanCap, rec, drops, todo, err, aret, svars,
                 recvd, bcastCalls, acks, hb, snap, shist, attempts>>

\* ---- SubscribeMetrics ---------------------------------------------------
\* (mutant) every call is given the same token
NewTokenFixed(s) == 1

\* uuid.New().String(): a token no other call is given (s names the call).
NewToken(s) == s

\* (mutant) no deferred Unregister: the call returns at once
AfterReturnNoDefer == "done"

\* Where a return statement of the streaming loop goes: the deferred
\* function runs s.broadcaster.Unregister(id) before the call returns.
AfterReturn == "unregister"

\* (mutant) the channel of the previous subscriber is used again, with what
\* it still holds
MakeChanReused(s) == IF s > 1 THEN chans[s - 1] ELSE <<>>

\* make(chan *gen.Metrics, 100): a new channel, with an empty buffer.
MakeChan(s) == <<>>

\* The SubscribeMetrics calls are numbered in the order of their arrival.
\* id := uuid.New().String(); ch := make(chan *gen.Metrics, 100)
Subscribe(s) ==
  /\ spc[s] = "idle"
  /\ \A u \in Subs : u < s => spc[u] # "idle"
  /\ id' = [id EXCEPT ![s] = NewToken(s)]
  /\ chans' = [chans EXCEPT ![s] = MakeChan(s)]
  /\ spc' = [spc EXCEPT ![s] = "register"]
  /\ UNCHANGED <<subscribers, muWriter, muReaders, chanCap, rec, drops, avars, msg, sret,
                 ctxDone, ahist, shist, attempts>>

\* Register: b.subscribersMu.Lock()
RegisterLock(s) ==
  /\ spc[s] = "register"
  /\ CanLock
  /\ muWriter' = s
  /\ spc' = [spc EXCEPT ![s] = "registering"]
  /\ UNCHANGED <<subscribers, muReaders, chans, chanCap, rec, drops, avars, id, msg, sret, ctxDone,
                 ahist, shist, attempts>>

\* Register: b.subscribers[id] = ch, then the deferred Unlock.
RegisterBody(s) ==
  /\ spc[s] = "registering"
  /\ subscribers' = RegisterMap(subscribers, id[s], s)
  /\ muWriter' = NoOne
  /\ spc' = [spc EXCEPT ![s] = "select"]
  /\ UNCHANGED <<muReaders, chans, chanCap, rec, drops, avars, id, msg, sret, ctxDone,
                 ahist, shist, attempts>>

\* The peer disconnects, the server shuts down or the context expires:
\* stream.Context().Done() is closed.  Only the select reads it, so a
\* cancellation that comes before the call first reaches its select is
\* taken there.
Cancel(s) ==
  /\ spc[s] \in {"select", "send"}
  /\ ~ctxDone[s]
  /\ ctxDone' = [ctxDone EXCEPT ![s] = TRUE]
  /\ UNCHANGED <<bvars, avars, spc, id, msg, sret, ahist, shist, attempts>>

\* select, case msg := <-ch (ready when the buffer is not empty).
\* (mutant) a receive empties the buffer
TakeRestNone(q) == <<>>

\* What a receive from the channel leaves in its buffer.
TakeRest(q) == Tail(q)

SelectMsg(s) ==
  /\ spc[s] = "select"
  /\ chans[s] # <<>>
  /\ msg' = [msg EXCEPT ![s] = Head(chans[s])]
  /\ chans' = [chans EXCEPT ![s] = TakeRest(@)]
  /\ spc' = [spc EXCEPT ![s] = "send"]
  /\ UNCHANGED <<subscribers, muWriter, muReaders, chanCap, rec, drops, avars, id, sret, ctxDone,
                 ahist, shist, attempts>>

\* stream.Send(msg) succeeds: back to the select.
SendOk(s) ==
  /\ spc[s] = "send"
  /\ sendCalls' = Kept([sendCalls EXCEPT ![s] = Append(@, msg[s])], sendCalls)
  /\ lastSend' = Kept([lastSend EXCEPT ![s] = "ok"], lastSend)
  /\ msg' = [msg EXCEPT ![s] = NoOne]
  /\ spc' = [spc EXCEPT ![s] = "select"]
  /\ UNCHANGED <<bvars, avars, id, sret, ctxDone, ahist, unregCalls, attempts>>

\* (mutant) the error of Send is swallowed
SendFailReturnNil == "nil"

\* What the call returns when stream.Send fails: that error.
SendFailReturn == "senderr"

\* stream.Send(msg) fails: return err.
SendFail(s) ==
  /\ spc[s] = "send"
  /\ sendCalls' = Kept([sendCalls EXCEPT ![s] = Append(@, msg[s])], sendCalls)
  /\ lastSend' = Kept([lastSend EXCEPT ![s] = "failed"], lastSend)
  /\ sret' = [sret EXCEPT ![s] = SendFailReturn]
  /\ msg' = [msg EXCEPT ![s] = NoOne]
  /\ spc' = [spc EXCEPT ![s] = AfterReturn]
  /\ UNCHANGED <<bvars, avars, id, ctxDone, ahist, unregCalls, attempts>>

\* (mutant) the select never takes the Done case
DoneReadyNever(s) == FALSE

\* (mutant) the select takes the Done case only when the channel is empty
DoneReadyWhenEmpty(s) == ctxDone[s] /\ chans[s] = <<>>

\* The case <-stream.Context().Done() of the select can proceed: the
\* context is done, whatever the channel holds.
DoneReady(s) == ctxDone[s]

\* select, case <-stream.Context().Done(): return nil.
SelectDone(s) ==
  /\ spc[s] = "select"
  /\ DoneReady(s)
  /\ sret' = [sret EXCEPT ![s] = "nil"]
  /\ spc' = [spc EXCEPT ![s] = AfterReturn]
  /\ UNCHANGED <<bvars, avars, id, msg, ctxDone, ahist, shist, attempts>>

\* Unregister, called by the deferred function: b.subscribersMu.Lock()
UnregisterLock(s) ==
  /\ spc[s] = "unregister"
  /\ CanLock
  /\ muWriter' = s
  /\ unregCalls' = Kept([unregCalls EXCEPT ![s] = Append(@, id[s])], unregCalls)
  /\ spc' = [spc EXCEPT ![s] = "unregistering"]
  /\ UNCHANGED <<subscribers, muReaders, chans, chanCap, rec, drops, avars, id, msg, sret, ctxDone,
                 ahist, sendCalls, lastSend, attempts>>

\* Unregister: delete(b.subscribers, id), then the deferred Unlock; the
\* SubscribeMetrics call returns.
UnregisterBody(s) ==
  /\ spc[s] = "unregistering"
  /\ subscribers' = UnregisterMap(subscribers, id[s])
  /\ muWriter' = NoOne
  /\ spc' = [spc EXCEPT ![s] = "done"]
  /\ UNCHANGED <<muReaders, chans, chanCap, rec, drops, avars, id, msg, sret, ctxDone,
                 ahist, shist, attempts>>

\* ---- the system ---------------------------------------------------------
\* The broadcaster just made and no SendMetrics call under way; the
\* SubscribeMetrics calls in gone have come, been cancelled at their select
\* with nothing in their channels and returned, the others are to come.
Start(gone) ==
  /\ NewBroadcaster
  /\ chans = [s \in Subs |-> <<>>]
  /\ chanCap \in 1..MaxCap
  /\ drops = [s \in Subs |-> 0]
  /\ apc = [a \in Agents |-> "recv"]
  /\ req = [a \in Agents |-> NoOne]
  /\ todo = [a \in Agents |-> {}]
  /\ err = [a \in Agents |-> "none"]
  /\ aret = [a \in Agents |-> "none"]
  /\ spc = [s \in Subs |-> IF s \in gone THEN "done" ELSE "idle"]
  /\ id = [s \in Subs |-> IF s \in gone THEN NewToken(s) ELSE NoOne]
  /\ msg = [s \in Subs |-> NoOne]
  /\ sret = [s \in Subs |-> IF s \in gone THEN "nil" ELSE "none"]
  /\ ctxDone = [s \in Subs |-> s \in gone]
  /\ recvd = [a \in Agents |-> <<>>]
  /\ bcastCalls = [a \in Agents |-> <<>>]
  /\ acks = [a \in Agents |-> 0]
  /\ returned = {}
  /\ hb = [m \in Msgs |-> {}]
  /\ snap = [m \in Msgs |-> {}]
  /\ attempts = [s \in Subs |-> <<>>]
  /\ sendCalls = [s \in Subs |-> <<>>]
  /\ unregCalls = [s \in Subs |-> <<>>]
  /\ lastSend = [s \in Subs |-> "none"]

\* The state after construction, with the observations kept.
Init == Start({}) /\ rec = TRUE

Next ==
  \/ \E a \in Agents : RecvMsg(a)
  \/ \E a \in Agents : RecvEOF(a)
  \/ \E a \in Agents : RecvErr(a)
  \/ \E a \in Agents : BroadcastRLock(a)
  \/ \E a \in Agents : BroadcastStep(a)
  \/ \E a \in Agents : BroadcastRUnlock(a)
  \/ \E s \in Subs : Subscribe(s)
  \/ \E s \in Subs : RegisterLock(s)
  \/ \E s \in Subs : RegisterBody(s)
  \/ \E s \in Subs : Cancel(s)
  \/ \E s \in Subs : SelectMsg(s)
  \/ \E s \in Subs : SendOk(s)
  \/ \E s \in Subs : SendFail(s)
  \/ \E s \in Subs : SelectDone(s)
  \/ \E s \in Subs : UnregisterLock(s)
  \/ \E s \in Subs : UnregisterBody(s)

Spec == Init /\ [][Next]_vars

\* Scheduling of the registry operations.  The Go scheduler runs every
\* runnable goroutine, so a step inside Broadcast, Register or Unregister
\* that stays enabled is eventually taken, and a goroutine waiting for a
\* mutex that stays free eventually gets it: weak fairness, and no more.
\* Nothing is assumed of the environment (Recv, Send, cancellation, new
\* subscriptions) nor of the subscribers' draining of their channels.
RegistryFairness ==
  /\ \A a \in Agents : /\ WF_vars(BroadcastRLock(a))
                        /\ WF_vars(BroadcastStep(a))
                        /\ WF_vars(BroadcastRUnlock(a))
  /\ \A s \in Subs : /\ WF_vars(RegisterLock(s))
                      /\ WF_vars(RegisterBody(s))
                      /\ WF_vars(UnregisterLock(s))
                      /\ WF_vars(UnregisterBody(s))

\* The registry with agents whose streams stay open.  An agent whose stream
\* has ended takes no further step, exactly like an agent left waiting in
\* Recv for ever, which this specification allows (nothing forces Recv to
\* return); so leaving the end of the agents' streams out loses no behaviour
\* of the registry, the channels or the subscribers.
LiveNext ==
  \/ \E a \in Agents : RecvMsg(a)
  \/ \E a \in Agents : BroadcastRLock(a)
  \/ \E a \in Agents : BroadcastStep(a)
  \/ \E a \in Agents : BroadcastRUnlock(a)
  \/ \E s \in Subs : Subscribe(s)
  \/ \E s \in Subs : RegisterLock(s)
  \/ \E s \in Subs : RegisterBody(s)
  \/ \E s \in Subs : Cancel(s)
  \/ \E s \in Subs : SelectMsg(s)
  \/ \E s \in Subs : SendOk(s)
  \/ \E s \in Subs : SendFail(s)
  \/ \E s \in Subs : SelectDone(s)
  \/ \E s \in Subs : UnregisterLock(s)
  \/ \E s \in Subs : UnregisterBody(s)

LiveSpec == Init /\ [][LiveNext]_vars /\ RegistryFairness

\* Scheduling of the subscription loops.  A goroutine in a select one of
\* whose cases can proceed does proceed with one of them, and a stream.Send
\* that was called returns (with nil or an error): weak fairness of the
\* select as a whole and of the return of Send.  Which case the select
\* takes when both can proceed is left open.
SubFairness ==
  \A s \in Subs : /\ WF_vars(SelectMsg(s) \/ SelectDone(s))
                   /\ WF_vars(SendOk(s) \/ SendFail(s))

SubLiveSpec == Init /\ [][LiveNext]_vars /\ RegistryFairness /\ SubFairness

\* The same program with agents that never stop sending: nothing is
\* observed (the observation variables keep their first values), so the
\* number of messages is not bounded and a channel can be refilled for
\* ever.  The messages of one agent are then not told apart.  It starts
\* when all SubscribeMetrics calls but the last have come and gone.
BusyInit == Start(1..(NumSubs - 1)) /\ rec = FALSE

\* The choice of the select.  "If one or more of the communications can
\* proceed, a single one that can proceed is chosen via a uniform
\* pseudo-random selection" (the Go specification): a case that can proceed
\* again and again is, with probability one, chosen at some point, which is
\* strong fairness of each case.
SelectFairness == \A s \in Subs : SF_vars(SelectDone(s))

BusySpec ==
  BusyInit /\ [][LiveNext]_vars /\ RegistryFairness /\ SubFairness /\ SelectFairness

\* ---- claims -----------------------------------------------------------
Registered(s) == spc[s] \in {"select", "send", "unregister", "unregistering"}
Streaming(s) == spc[s] \in {"select", "send"}
Leaving(s) == spc[s] \in {"unregister", "unregistering"}
InBroadcast(a) == apc[a] \in {"rlock", "range"}

\* C1 (leak-freedom): once a SubscribeMetrics call has returned, by
\* whichever exit path, its token is not in the registry, and it never comes
\* back; a call that has left the streaming loop eventually returns with
\* its token removed.
C1_LeakFreedom ==
  /\ [](\A s \in Subs : spc[s] = "done" => id[s] \notin DOMAIN subscribers)
  /\ [][\A s \in Subs : (spc[s] = "done" /\ id[s] \notin DOMAIN subscribers)
                          => (spc'[s] = "done" /\ id'[s] \notin DOMAIN subscribers')]_vars
  /\ \A s \in Subs : Leaving(s) ~> (spc[s] = "done" /\ id[s] \notin DOMAIN subscribers)

\* Both exit paths have been taken: one call returned the Send error, another
\* returned nil after cancellation, and both are out of the registry.
C1_Witness ==
  \E s, u \in Subs : /\ spc[s] = "done" /\ sret[s] = "senderr"
                      /\ spc[u] = "done" /\ sret[u] = "nil"
                      /\ unregCalls[s] # <<>> /\ unregCalls[u] # <<>>

\* C4 (Broadcast never blocks): every Broadcast call returns, whatever the
\* state of the channels and although no subscriber is ever required to
\* drain; and whoever holds the registry mutex is at a step that needs
\* neither a channel nor the transport to proceed.
C4_BroadcastReturns ==
  /\ \A a \in Agents : InBroadcast(a) ~> (apc[a] = "recv")
  /\ [](\A a \in muReaders : ENABLED (BroadcastStep(a) \/ BroadcastRUnlock(a)))
  /\ [](\A s \in Subs : muWriter = s => ENABLED (RegisterBody(s) \/ UnregisterBody(s)))

\* A Broadcast has returned after dropping its message for a full channel.
C4_Witness ==
  \E s \in Subs : \E k \in 1..Len(attempts[s]) :
     /\ ~attempts[s][k].room
     /\ attempts[s][k].m \in returned
     /\ sendCalls[s] = <<>>

\* C2 (per-subscriber FIFO): if Broadcast(m1) returned before Broadcast(m2)
\* was called and both messages are sent to a subscriber, m1 is sent before
\* m2: no subscriber is sent a message after one whose Broadcast call came
\* wholly later.
C2_PerSubscriberFIFO ==
  \A s \in Subs : \A i, j \in 1..Len(sendCalls[s]) :
     i < j => sendCalls[s][j] \notin hb[sendCalls[s][i]]

\* A subscriber whose channel can hold two messages has been sent two, the
\* first of them broadcast wholly before the second.
C2_Witness ==
  \E s \in Subs :
     /\ Len(sendCalls[s]) >= 2
     /\ sendCalls[s][1] \in hb[sendCalls[s][2]]
     /\ \E k \in 1..Len(attempts[s]) : attempts[s][k].m = sendCalls[s][1]
     /\ chanCap >= 2

\* The attempts a Broadcast of m made on channel s.
AttemptsOf(m, s) == {k \in 1..Len(attempts[s]) : attempts[s][k].m = m}

\* C3 (drop isolation): a Broadcast call that has returned has made exactly
\* one attempt on every channel registered while it held the lock, and each
\* attempt enqueued the message exactly when that channel had room at that
\* moment, whatever happened on the other channels.
C3_DropIsolation ==
  \A m \in returned : \A s \in snap[m] :
     /\ Cardinality(AttemptsOf(m, s)) = 1
     /\ \A k \in AttemptsOf(m, s) : attempts[s][k].enq = attempts[s][k].room

\* One Broadcast call dropped its message for a full channel and enqueued
\* it into another.
C3_Witness ==
  \E m \in returned : \E s, u \in snap[m] :
     /\ s # u
     /\ \E k \in AttemptsOf(m, s) : ~attempts[s][k].room /\ ~attempts[s][k].enq
     /\ \E k \in AttemptsOf(m, u) : attempts[u][k].room /\ attempts[u][k].enq

\* C5 (exactly-once unregistration): a SubscribeMetrics call has made no
\* Unregister call until it leaves the streaming loop, and once it has
\* returned it has made exactly one, for its own token.
C5_ExactlyOneUnregister ==
  \A s \in Subs :
     /\ spc[s] \in {"idle", "register", "registering", "select", "send", "unregister"}
          => unregCalls[s] = <<>>
     /\ spc[s] \in {"unregistering", "done"} => unregCalls[s] = <<id[s]>>

\* One call has returned after a failed Send that followed a successful one,
\* another after cancellation.
C5_Witness ==
  \E s, u \in Subs : /\ spc[s] = "done" /\ sret[s] = "senderr" /\ Len(sendCalls[s]) >= 2
                      /\ spc[u] = "done" /\ sret[u] = "nil"

\* C6 (registry membership): the tokens in the registry are exactly those of
\* the calls that have completed Register and not completed Unregister.
C6_RegistryMembership ==
  DOMAIN subscribers = {id[s] : s \in {u \in Subs : Registered(u)}}

\* One call is inside Unregister, still registered, and another has
\* completed it.
C6_Witness ==
  \E s, u \in Subs : spc[s] = "unregistering" /\ spc[u] = "done" /\ sret[u] = "senderr"

\* C7 (registration uniqueness): the registry holds one entry per registered
\* call, each with that call's own channel, and a Register call never finds
\* its token already present.
C7_RegistrationUniqueness ==
  /\ Cardinality(DOMAIN subscribers) = Cardinality({s \in Subs : Registered(s)})
  /\ \A s \in Subs : Registered(s) => id[s] \in DOMAIN subscribers /\ subscribers[id[s]] = s
  /\ \A s \in Subs : spc[s] \in {"register", "registering"} => id[s] \notin DOMAIN subscribers

\* All the calls registered while each of them was waiting for the lock at
\* the same time, and a Broadcast has run over the full registry.
C7_Witness ==
  /\ \A s \in Subs : spc[s] = "select"
  /\ Cardinality(DOMAIN subscribers) = NumSubs
  /\ \E m \in returned : snap[m] = Subs

\* C8 (Unregister idempotence): deleting a token twice leaves the registry
\* that deleting it once leaves, and deleting an absent token leaves the
\* registry as it is; and an Unregister call changes no channel.
C8_UnregisterIdempotent ==
  /\ [](\A t \in Subs \cup {NoOne} :
          LET once == UnregisterMap(subscribers, t)
          IN /\ UnregisterMap(once, t) = once
             /\ t \notin DOMAIN once
             /\ (t \notin DOMAIN subscribers => once = subscribers)
             /\ \A x \in DOMAIN subscribers \ {t} :
                   x \in DOMAIN once /\ once[x] = subscribers[x])
  /\ [][\A s \in Subs : (spc[s] = "unregistering" /\ spc'[s] = "done")
                          => (chans' = chans /\ drops' = drops)]_vars

\* A call has unregistered while another is registered: its token is absent
\* from a registry that is not empty.
C8_Witness ==
  \E s, u \in Subs : /\ spc[s] = "done" /\ unregCalls[s] = <<id[s]>>
                      /\ Streaming(u)
                      /\ id[s] \notin DOMAIN subscribers /\ id[u] \in DOMAIN subscribers

\* What a subscriber has taken out of its channel, in order.
Taken(s) == sendCalls[s] \o (IF spc[s] = "send" THEN <<msg[s]>> ELSE <<>>)
\* The messages of the attempts on channel s that found room, in order.
HadRoom(r) == r.room
FoundRoom(s) == LET a == SelectSeq(attempts[s], HadRoom) IN [k \in 1..Len(a) |-> a[k].m]
\* The messages of all the attempts on channel s, in order.
Attempted(s) == [k \in 1..Len(attempts[s]) |-> attempts[s][k].m]

C10_IngestionForwarding ==
  \A a \in Agents :
     /\ bcastCalls[a] = recvd[a]
     /\ apc[a] \in {"recv", "closed", "failed"} => Range(recvd[a]) \subseteq returned
     /\ InBroadcast(a) =>
          /\ recvd[a] # <<>> /\ req[a] = recvd[a][Len(recvd[a])]
          /\ Range(SubSeq(recvd[a], 1, Len(recvd[a]) - 1)) \subseteq returned
          /\ req[a] \notin returned
     /\ acks[a] = IF apc[a] = "closed" THEN 1 ELSE 0

\* A call received MaxMsgs messages, then the end of the stream.
C10_Witness ==
  \E a \in Agents : /\ apc[a] = "closed"
                     /\ Len(recvd[a]) = MaxMsgs
                     /\ acks[a] = 1

\* C11 (acknowledgment only on clean closure): a SendMetrics call calls
\* SendAndClose at most once, and only when Recv returned io.EOF; when Recv
\* returned a transport error the call is failed, has returned that error,
\* has sent no acknowledgment and holds no lock, and from then on it calls
\* neither Broadcast nor SendAndClose.
C11_AckOnlyOnCleanClosure ==
  /\ [](\A a \in Agents :
          /\ acks[a] <= 1
          /\ acks[a] = 1 => (err[a] = "EOF" /\ apc[a] = "closed")
          /\ err[a] = "transport" =>
               /\ apc[a] = "failed" /\ aret[a] = "transport"
               /\ acks[a] = 0 /\ a \notin muReaders
               /\ bcastCalls[a] = recvd[a] /\ Range(bcastCalls[a]) \subseteq returned
          /\ apc[a] = "failed" => err[a] = "transport")
  /\ [][\A a \in Agents : apc[a] = "failed" =>
            /\ apc'[a] = "failed" /\ aret'[a] = aret[a]
            /\ bcastCalls'[a] = bcastCalls[a] /\ acks'[a] = acks[a]]_vars

\* A call failed after it had broadcast a message, while another call went
\* on to its clean end.
C11_Witness ==
  \E a, b \in Agents : /\ apc[a] = "failed" /\ recvd[a] # <<>> /\ acks[a] = 0
                        /\ apc[b] = "closed" /\ acks[b] = 1

\* C12 as stated (clean closure returns success): a call that has seen
\* io.EOF is closed, has sent one acknowledgment and has returned nil.
C12_CleanClosureReturnsNil ==
  \A a \in Agents : err[a] = "EOF" =>
     (apc[a] = "closed" /\ acks[a] = 1 /\ aret[a] = "nil")

\* C12 as amended: a call that has seen io.EOF is closed, has called
\* SendAndClose once and has returned what SendAndClose returned: nil, or
\* the error of sending the acknowledgment; never a Recv error.
C12_CleanClosureReturnsAckResult ==
  \A a \in Agents :
     /\ err[a] = "EOF" =>
          (apc[a] = "closed" /\ acks[a] = 1 /\ aret[a] \in {"nil", "ackfailed"})
     /\ apc[a] = "closed" => err[a] = "EOF"

\* A call has seen io.EOF after a message and returned the error of sending
\* the acknowledgment; another has returned nil.
C12_Witness ==
  \E a, b \in Agents : /\ apc[a] = "closed" /\ aret[a] = "ackfailed" /\ recvd[a] # <<>>
                        /\ apc[b] = "closed" /\ aret[b] = "nil"

\* The step of subscription call s is the failure of its stream.Send.
SendFails(s) == spc[s] = "send" /\ lastSend'[s] = "failed"
\* The step of ingestion call a is the failure of its stream.Recv.
RecvFails(a) == apc[a] = "recv" /\ apc'[a] = "failed"
\* The step belongs to the return of subscription call s after a failed Send.
FailedLeaves(s) == lastSend[s] = "failed" /\ spc'[s] # spc[s]
\* Every call but subscription call s is where it was, with the same locals.
OtherSubsSame(s) ==
  \A u \in Subs \ {s} : /\ spc'[u] = spc[u] /\ id'[u] = id[u] /\ msg'[u] = msg[u]
                         /\ sret'[u] = sret[u] /\ ctxDone'[u] = ctxDone[u]
OtherAgentsSame(a) ==
  \A b \in Agents \ {a} : /\ apc'[b] = apc[b] /\ req'[b] = req[b]
                           /\ todo'[b] = todo[b] /\ aret'[b] = aret[b]

\* C15 (failure containment): a failing Recv changes nothing but its own
\* ingestion call; a failing Send changes nothing but its own subscription
\* call; while that call leaves, the registry loses at most the call's own
\* token and every other entry, every mailbox and every other call stay as
\* they are; a call that has terminated holds no lock, so the others can
\* go on.
C15_FailureContainment ==
  /\ [][\A a \in Agents : RecvFails(a) =>
            (bvars' = bvars /\ svars' = svars /\ OtherAgentsSame(a))]_vars
  /\ [][\A s \in Subs : SendFails(s) =>
            (bvars' = bvars /\ avars' = avars /\ OtherSubsSame(s))]_vars
  /\ [][\A s \in Subs : FailedLeaves(s) =>
            /\ DOMAIN subscribers \ {id[s]} \subseteq DOMAIN subscribers'
            /\ DOMAIN subscribers' \subseteq DOMAIN subscribers
            /\ \A t \in DOMAIN subscribers' : subscribers'[t] = subscribers[t]
            /\ chans' = chans /\ drops' = drops /\ muReaders' = muReaders
            /\ avars' = avars /\ OtherSubsSame(s)]_vars
  /\ [](/\ \A a \in Agents : apc[a] \in {"failed", "closed"} => a \notin muReaders
        /\ \A s \in Subs : spc[s] = "done" => muWriter # s)

\* A subscription call has failed and is gone, an ingestion call has failed,
\* and another subscriber is still registered with a message in its mailbox.
C15_Witness ==
  \E s, u \in Subs : \E a \in Agents :
     /\ s # u /\ spc[s] = "done" /\ lastSend[s] = "failed"
     /\ apc[a] = "failed"
     /\ spc[u] = "select" /\ id[u] \in DOMAIN subscribers /\ chans[u] # <<>>

\* The messages whose Broadcast held the read lock while the channel of
\* subscription call s was an entry of the registry.
BroadcastWhileRegistered(s) == {m \in Msgs : s \in snap[m]}
\* The messages that have ever been put into the channel of call s.
EverEnqueued(s) == {attempts[s][k].m : k \in {j \in 1..Len(attempts[s]) : attempts[s][j].enq}}

\* C16 (no delivery across the gap): whatever is in a subscriber's mailbox,
\* has been taken from it or has been handed to stream.Send was broadcast
\* while the subscriber's channel was registered; Broadcast makes no attempt
\* on a channel that is not in its snapshot; and until its Register has
\* completed a subscription has an empty mailbox and has been sent nothing.
C16_NoDeliveryAcrossGap ==
  \A s \in Subs :
     /\ Range(chans[s]) \cup Range(Taken(s)) \subseteq BroadcastWhileRegistered(s)
     /\ Range(Attempted(s)) \subseteq BroadcastWhileRegistered(s)
     /\ spc[s] \in {"idle", "register", "registering"} =>
          (chans[s] = <<>> /\ Taken(s) = <<>> /\ attempts[s] = <<>>)
     /\ \A m \in returned : s \notin snap[m] => m \notin EverEnqueued(s)

\* One message was broadcast and has returned while subscriber s was not
\* registered and its predecessor u had a message pending; s, registered
\* since, has been sent a later message.
C16_Witness ==
  \E s, u \in Subs : \E m, n \in Msgs :
     /\ u < s /\ m \in returned /\ s \notin snap[m] /\ u \in snap[m]
     /\ n \in Range(sendCalls[s]) /\ spc[u] = "done"

\* The Register and Unregister calls between their Lock and their Unlock.
Writers == {s \in Subs : spc[s] \in {"registering", "unregistering"}}
\* The Broadcast calls between their RLock and their RUnlock.
Readers == {a \in Agents : apc[a] = "range"}

\* C17 (registry lock discipline): at most one Register or Unregister call is
\* in its critical section, and while one is, no Broadcast call is in its
\* own; and a step that changes the registry map is taken by the one writer
\* with no reader inside.  Broadcast calls may be inside together (the
\* witness).
C17_LockDiscipline ==
  /\ [](/\ Cardinality(Writers) <= 1
        /\ Writers # {} => Readers = {}
        /\ muReaders = Readers
        /\ Writers = IF muWriter = NoOne THEN {} ELSE {muWriter})
  /\ [][subscribers' # subscribers => (Cardinality(Writers) = 1 /\ Readers = {})]_vars

\* Every ingestion call is inside the critical section of Broadcast at the
\* same time, each with an entry still to visit.
C17_Witness ==
  /\ Readers = Agents
  /\ \A a \in Agents : todo[a] # {}
  /\ \E s \in Subs : spc[s] \in {"register", "unregister"}

\* Subscription call s has returned (its deferred Unregister may still run).
Returned(s) == spc[s] \in {"unregister", "unregistering", "done"}
\* The step of subscription call s is a stream.Send that succeeds.
SendSucceeds(s) == spc[s] = "send" /\ spc'[s] # "send" /\ lastSend'[s] = "ok"

StillToVisit(a) == {subscribers[t] : t \in todo[a]}
\* The messages that have been handed to Broadcast.
Broadcasted == UNION {Range(bcastCalls[a]) : a \in Agents}
NoDuplicates(q) == \A j, k \in 1..Len(q) : q[j] = q[k] => j = k

\* C19 (atomic membership snapshot): the registry does not change while a
\* Broadcast holds the read lock; a Broadcast that has returned has made
\* exactly one attempt on each channel registered when it took the lock and
\* none on any other; one still in its loop has made its one attempt on
\* exactly the snapshot's channels it has visited.  So what a subscriber is
\* sent was broadcast, and no message is sent to it twice.
C19_AtomicSnapshot ==
  /\ [][muReaders # {} => subscribers' = subscribers]_vars
  /\ [](\A s \in Subs :
          /\ \A m \in returned :
                Cardinality(AttemptsOf(m, s)) = IF s \in snap[m] THEN 1 ELSE 0
          /\ \A a \in Readers :
                /\ StillToVisit(a) \subseteq snap[req[a]]
                /\ Cardinality(AttemptsOf(req[a], s)) =
                     IF s \in snap[req[a]] \ StillToVisit(a) THEN 1 ELSE 0
          /\ \A m \in Msgs \ Broadcasted : AttemptsOf(m, s) = {}
          /\ Range(Taken(s)) \subseteq Broadcasted
          /\ NoDuplicates(Taken(s) \o chans[s]))

\* A Broadcast has returned after one attempt on each of two registered
\* channels, one of which was full; another has returned that found a
\* different membership.
C19_Witness ==
  \E m, n \in returned :
     /\ snap[m] = Subs /\ snap[n] # Subs
     /\ \E s, u \in Subs : /\ \E k \in AttemptsOf(m, s) : ~attempts[s][k].enq
                            /\ \E j \in AttemptsOf(m, u) : attempts[u][j].enq

\* C13 (cancellation with an empty mailbox): a call at its select with its
\* context done and its channel empty goes on, unless a message is put
\* into the channel, to the end of its deferred Unregister, with its token
\* out of the registry; with the context done and the channel empty no
\* message is taken for a stream.Send, and a call that has returned calls
\* stream.Send no more.
C13_CancelEmptyMailbox ==
  /\ \A s \in Subs :
        (spc[s] = "select" /\ ctxDone[s] /\ chans[s] = <<>>)
          ~> (\/ spc[s] = "done" /\ id[s] \notin DOMAIN subscribers
              \/ chans[s] # <<>>)
  /\ [][\A s \in Subs :
          /\ (ctxDone[s] /\ chans[s] = <<>> /\ spc[s] # "send") =>
               (spc'[s] # "send" /\ sendCalls'[s] = sendCalls[s])
          /\ Returned(s) => (Returned(s)' /\ sendCalls'[s] = sendCalls[s])]_vars

\* A call cancelled at its select with nothing pending has returned nil and
\* unregistered, having sent everything that was ever put into its channel.
C13_Witness ==
  \E s \in Subs : /\ spc[s] = "done" /\ sret[s] = "nil" /\ chans[s] = <<>>
                   /\ id[s] \notin DOMAIN subscribers
                   /\ sendCalls[s] # <<>> /\ Range(sendCalls[s]) = EverEnqueued(s)

\* C20 (eventual delivery to a live subscriber): a message in the channel
\* of a subscription call is in time handed to stream.Send, unless the
\* call's context is done or one of its Sends has failed; and a message
\* that was put into the channel is at any time either still in it or
\* taken from it for stream.Send, in the order of arrival, so that a
\* message is lost only by being in the channel when the call ends.
C20_EventualDelivery ==
  /\ \A s \in Subs : \A m \in Msgs :
        (m \in Range(chans[s]))
          ~> (m \in Range(sendCalls[s]) \/ ctxDone[s] \/ lastSend[s] = "failed")
  /\ [](\A s \in Subs : FoundRoom(s) = Taken(s) \o chans[s])

\* A live subscriber, never cancelled, has been sent two messages that
\* were waiting in its channel.
C20_Witness ==
  \E s \in Subs : /\ Len(sendCalls[s]) = 2 /\ ~ctxDone[s] /\ lastSend[s] = "ok"
                   /\ spc[s] = "select" /\ chans[s] = <<>>

\* C14 (cancellation is not delayed by mailbox activity): a subscription
\* call whose context is done while it is in its loop goes on to the end of
\* its deferred Unregister, with its token out of the registry, although
\* the agents never stop, its channel is refilled again and again and its
\* stream.Send may succeed every time.
C14_CancelNotDelayed ==
  \A s \in Subs :
     (ctxDone[s] /\ Streaming(s)) ~> (spc[s] = "done" /\ id[s] \notin DOMAIN subscribers)

\* A call took the Done case of its select with a full channel, and has
\* unregistered while a Broadcast is under way.
C14_Witness ==
  \E s \in Subs : /\ spc[s] = "done" /\ sret[s] = "nil"
                   /\ Len(chans[s]) = chanCap /\ id[s] \notin DOMAIN subscribers
                   /\ ~rec /\ \E a \in Agents : apc[a] = "range"

====
